---- MODULE Spec2Model ----
(***************************************************************************)
(* Model of gama/utilities/auto_ensemble.py: the Ensemble class (greedy    *)
(* forward selection, bagged selection, parallel time-bounded fit, blended *)
(* prediction) and the module functions load_predictions, fit_and_weight.  *)
(*                                                                         *)
(* Predictions are scalars; averages are exact rationals <<num, den>>      *)
(* with den > 0.  A Model Record is [pipeline, predictions,                *)
(* validation_score]; the dict self._models is a sequence of               *)
(* <<model, weight>> values in insertion order, keyed by model.pipeline.   *)
(***************************************************************************)
EXTENDS Integers, Sequences, FiniteSets, TLC

VARIABLES
    metric,            \* self._metric: name of the metric collaborator
    y_true,            \* self._y_true
    model_library,     \* self._model_library (a list of Model records)
    models,            \* self._models
    child_ensembles,   \* self._child_ensembles: the _models of each child
    fit_models,        \* self._fit_models: a list of <<pipeline, weight>>
    none_attrs,        \* the attributes of self that hold None
    shrink_on_pickle,  \* self._shrink_on_pickle
    raised,            \* exception that left the last call, "none" if it returned
    lastOp,            \* the last call made and its arguments
    additions,         \* number of additions requested by the calls that returned
    since_reset,       \* additions made since self._models was last reset
    pc,                \* position of the main thread inside fit
    dispatcher,        \* FunctionDispatcher: "none", "new", "started", "stopped"
    jobs,              \* work items queued and not yet taken by a worker
    results,           \* outputs of finished jobs not yet retrieved
    got,               \* output returned by get_next_result, not yet appended
    n_got,             \* iterations of the collection loop completed
    timed_out,         \* the ThreadingTimeout deadline has fired
    fit_failed,        \* pipelines whose fit(X, y) raised inside a worker
    retrieved,         \* the outputs get_next_result has returned, in order
    proba,             \* result of the last predict_proba call
    listing,           \* os.listdir(cache_dir): the files of the directory
    loaded             \* result of load_predictions(cache_dir)

vars == <<metric, y_true, model_library, models, child_ensembles, fit_models,
          raised, lastOp, additions, since_reset, pc, dispatcher, jobs,
          results, got, n_got, timed_out, fit_failed, retrieved, proba,
          listing, loaded, none_attrs, shrink_on_pickle>>

selVars == <<metric, y_true, model_library, models, child_ensembles,
             raised, lastOp, additions, since_reset>>
fitVars == <<fit_models, pc, dispatcher, jobs, results, got, n_got, timed_out,
             fit_failed, retrieved, proba>>
loadVars == <<listing, loaded>>
objVars == <<none_attrs, shrink_on_pickle>>

(***************************************************************************)
(* Bounds of the model.                                                    *)
(***************************************************************************)
MaxLib == 3          \* largest model library
MaxN == 2            \* largest n given to build_initial_ensemble / add_models
MaxAdditions == 3    \* cap on the additions requested over one run
MaxBagLib == 2       \* largest model library of a bagged parent
MaxRounds == 2       \* cap on the child ensembles one parent ever holds
MaxSelected == 2     \* largest Weighted Model Set handed to fit
MaxWeight == 3       \* largest selection weight handed to fit
MaxFiles == 3        \* largest directory listing
Precision == 8       \* significand bits of the binary floating point format

PredValues == {0, 1, 2}      \* validation-set predictions of a model
ScoreValues == {0, 1}        \* validation_score of a model (0: failed upstream)
Metrics == {"neg_abs_error", "abs_error"}
Fractions == {50, 100}       \* _child_ensemble_model_fraction, in percent

(***************************************************************************)
(* Exact rational arithmetic on <<num, den>>, den > 0.                     *)
(***************************************************************************)
Abs(x) == IF x < 0 THEN -x ELSE x
Rat(n) == <<n, 1>>
RAdd(a, b) == <<a[1] * b[2] + b[1] * a[2], a[2] * b[2]>>
RSub(a, b) == <<a[1] * b[2] - b[1] * a[2], a[2] * b[2]>>
RDivInt(a, k) == <<a[1], a[2] * k>>
RLess(a, b) == a[1] * b[2] < b[1] * a[2]
REq(a, b) == a[1] * b[2] = b[1] * a[2]

(***************************************************************************)
(* Binary floating point: fl(r) is the value nearest to the rational r     *)
(* that has Precision significand bits, ties to the even significand.      *)
(* Each numpy operation returns fl of its exact result.                    *)
(***************************************************************************)
RECURSIVE Pow2(_)
Pow2(n) == IF n = 0 THEN 1 ELSE 2 * Pow2(n - 1)

\* the largest e <= from with 2^e <= a / den, for a > 0
RECURSIVE ExponentFrom(_, _, _)
ExponentFrom(from, a, den) ==
    IF (IF from >= 0 THEN den * Pow2(from) <= a ELSE den <= a * Pow2(-from))
    THEN from
    ELSE ExponentFrom(from - 1, a, den)

\* e with 2^e <= a / den < 2^(e+1), for 0 < a / den < 16
Exponent(a, den) == ExponentFrom(3, a, den)

\* exact sum of two values whose denominators are powers of two
DyadicAdd(a, b) ==
    IF a[2] >= b[2] THEN <<a[1] + b[1] * (a[2] \div b[2]), a[2]>>
    ELSE <<a[1] * (b[2] \div a[2]) + b[1], b[2]>>

fl(r) ==
    IF r[1] = 0 THEN Rat(0)
    ELSE LET a == Abs(r[1])
             shift == Precision - 1 - Exponent(a, r[2])
             n == (a * Pow2(shift)) \div r[2]
             rem == (a * Pow2(shift)) % r[2]
             up == 2 * rem > r[2] \/ (2 * rem = r[2] /\ n % 2 = 1)
             sig == IF up THEN n + 1 ELSE n
         IN  <<(IF r[1] < 0 THEN -sig ELSE sig), Pow2(shift)>>

(***************************************************************************)
(* Metric collaborator (gama.ea.evaluation): evaluate(metric, y_true,      *)
(* predictions) -> scalar and the metric's maximize flag.                  *)
(***************************************************************************)
MetricMaximize(m) == m = "neg_abs_error"

evaluate(m, y, pred) ==
    LET e == Abs(pred[1] - y * pred[2])
    IN  IF m = "neg_abs_error" THEN <<-e, pred[2]>> ELSE <<e, pred[2]>>

(***************************************************************************)
(* Ensemble.__init__: self._maximize = True (never read from the metric).  *)
(***************************************************************************)
maximize == TRUE

Reverse(s) == [i \in 1..Len(s) |-> s[Len(s) + 1 - i]]
Take(s, n) == SubSeq(s, 1, IF n < Len(s) THEN n ELSE Len(s))

\* sorted(lib, key=...): stable ascending sort by individual score.  The
\* model at index i lands after the models with a smaller key and after the
\* earlier models with an equal key.
SortedByScore(lib, m, y) ==
    LET key == [i \in 1..Len(lib) |-> evaluate(m, y, Rat(lib[i].predictions))]
        rank == [i \in 1..Len(lib) |->
                    1 + Cardinality({j \in 1..Len(lib) :
                                        \/ RLess(key[j], key[i])
                                        \/ (j < i /\ ~RLess(key[i], key[j]))})]
    IN  [r \in 1..Len(lib) |-> lib[CHOOSE i \in 1..Len(lib) : rank[i] = r]]

(***************************************************************************)
(* The dict self._models.                                                  *)
(***************************************************************************)
Keys(ms) == {ms[i][1].pipeline : i \in 1..Len(ms)}
IndexOf(ms, p) == CHOOSE i \in 1..Len(ms) : ms[i][1].pipeline = p
Without(ms, i) == SubSeq(ms, 1, i - 1) \o SubSeq(ms, i + 1, Len(ms))

RECURSIVE SumWeights(_)
SumWeights(ms) == IF ms = <<>> THEN 0 ELSE ms[1][2] + SumWeights(Tail(ms))

RECURSIVE SumWeighted(_)
SumWeighted(ms) ==
    IF ms = <<>> THEN 0
    ELSE ms[1][1].predictions * ms[1][2] + SumWeighted(Tail(ms))

total_model_weights(ms) == SumWeights(ms)

\* defined only for a non-empty dict: np.stack raises ValueError on an empty list
averaged_validation_predictions(ms) == <<SumWeighted(ms), total_model_weights(ms)>>

add_model_noweight(ms, model, add_weight) ==
    IF model.pipeline \in Keys(ms)
    THEN LET i == IndexOf(ms, model.pipeline)
         IN  Append(Without(ms, i), <<ms[i][1], ms[i][2] + 1>>)
    ELSE Append(ms, <<model, 1>>)

add_model_overwrite(ms, model, add_weight) ==
    IF model.pipeline \in Keys(ms)
    THEN LET i == IndexOf(ms, model.pipeline)
         IN  Append(Without(ms, i), <<ms[i][1], add_weight>>)
    ELSE Append(ms, <<model, add_weight>>)

add_model(ms, model, add_weight) ==
    IF model.pipeline \in Keys(ms)
    THEN LET i == IndexOf(ms, model.pipeline)
         IN  Append(Without(ms, i), <<ms[i][1], ms[i][2] + add_weight>>)
    ELSE Append(ms, <<model, 0 + add_weight>>)

RECURSIVE AddAll(_, _)
AddAll(ms, selected) ==
    IF selected = <<>> THEN ms
    ELSE AddAll(add_model(ms, selected[1], 1), Tail(selected))

(***************************************************************************)
(* build_initial_ensemble(n), n > 0, on a non-empty library: the new       *)
(* self._models (the old one is overwritten).                              *)
(***************************************************************************)
selected_models(lib, m, y, n) ==
    LET asc == SortedByScore(lib, m, y)
    IN  Take(IF maximize THEN Reverse(asc) ELSE asc, n)

seed_keep(ms, lib, m, y, n) == AddAll(ms, selected_models(lib, m, y, n))

seed(ms, lib, m, y, n) == AddAll(<<>>, selected_models(lib, m, y, n))

(***************************************************************************)
(* add_models(n): one pass of the inner loop over the library, then the    *)
(* n iterations.  best is 0 while best_addition is unbound.                *)
(***************************************************************************)
candidate_pred_stale(avg, total, model) ==
    RAdd(avg, RDivInt(RSub(Rat(model.predictions), avg), total))

candidate_pred(avg, total, model) ==
    RAdd(avg, RDivInt(RSub(Rat(model.predictions), avg), total + 1))

\* lines 119-120 and 144-145 as numpy computes them: every subtraction,
\* division and addition is rounded
averaged_validation_predictions_fl(ms) ==
    fl(<<SumWeighted(ms), total_model_weights(ms)>>)

candidate_pred_fl(avg, total, model) ==
    fl(DyadicAdd(avg, fl(RDivInt(fl(RSub(Rat(model.predictions), avg)),
                                 total + 1))))

RECURSIVE BestFrom_noskip(_, _, _, _, _, _, _, _)
BestFrom_noskip(i, lib, m, y, avg, total, best, best_score) ==
    IF i > Len(lib) THEN best
    ELSE LET s == evaluate(m, y, candidate_pred(avg, total, lib[i]))
             better == \/ best = 0
                       \/ (maximize /\ RLess(best_score, s))
                       \/ (~maximize /\ RLess(s, best_score))
         IN  IF better
             THEN BestFrom_noskip(i + 1, lib, m, y, avg, total, i, s)
             ELSE BestFrom_noskip(i + 1, lib, m, y, avg, total, best, best_score)

RECURSIVE BestFrom(_, _, _, _, _, _, _, _)
BestFrom(i, lib, m, y, avg, total, best, best_score) ==
    IF i > Len(lib) THEN best
    ELSE IF lib[i].validation_score = 0
         THEN BestFrom(i + 1, lib, m, y, avg, total, best, best_score)
         ELSE LET s == evaluate(m, y, candidate_pred(avg, total, lib[i]))
                  better == \/ best = 0      \* best_addition_score is -inf / +inf
                            \/ (maximize /\ RLess(best_score, s))
                            \/ (~maximize /\ RLess(s, best_score))
              IN  IF better
                  THEN BestFrom(i + 1, lib, m, y, avg, total, i, s)
                  ELSE BestFrom(i + 1, lib, m, y, avg, total, best, best_score)

best_addition(ms, lib, m, y) ==
    BestFrom(1, lib, m, y, averaged_validation_predictions(ms),
             total_model_weights(ms), 0, Rat(0))

HasCandidate(lib) == \E i \in 1..Len(lib) : lib[i].validation_score # 0

\* add_models(n) on a non-empty dict and a library with a candidate
RECURSIVE add_n(_, _, _, _, _)
add_n(ms, lib, m, y, n) ==
    IF n = 0 THEN ms
    ELSE add_n(add_model(ms, lib[best_addition(ms, lib, m, y)], 1), lib, m, y, n - 1)

add_models_raises_nonempty(ms, lib, n) ==
    IF ~(n > 0) THEN "ValueError"
    ELSE IF ~HasCandidate(lib) THEN "UnboundLocalError"
    ELSE "none"

\* exception raised by add_models(n), "none" if it returns
add_models_raises(ms, lib, n) ==
    IF ~(n > 0) THEN "ValueError"
    ELSE IF ms = <<>> THEN "ValueError"            \* np.stack of an empty list
    ELSE IF ~HasCandidate(lib) THEN "UnboundLocalError"  \* best_addition unbound
    ELSE "none"

(***************************************************************************)
(* Initial states: an Ensemble constructed with model_library given.       *)
(* Library models are unique by pipeline: model i holds pipeline i.  An    *)
(* attribute that holds None is named in none_attrs and its variable holds *)
(* the empty value.                                                        *)
(***************************************************************************)
Model(p, pred, score) ==
    [pipeline |-> p, predictions |-> pred, validation_score |-> score]

Libraries ==
    UNION {{[i \in 1..len |-> Model(i, f[i][1], f[i][2])] :
                f \in [1..len -> PredValues \X ScoreValues]} : len \in 1..MaxLib}

NoOp == [op |-> "init"]

InitSel ==
    /\ metric \in Metrics
    /\ y_true = 1
    /\ model_library \in Libraries
    /\ models = <<>>
    /\ child_ensembles = <<>>
    /\ raised = "none"
    /\ lastOp = NoOp
    /\ additions = 0
    /\ since_reset = 0
    /\ none_attrs = {"_fit_models", "_model_library_directory", "_label_encoder"}
    /\ shrink_on_pickle = TRUE

InitFitIdle ==
    /\ fit_models = <<>>
    /\ pc = "idle"
    /\ dispatcher = "none"
    /\ jobs = <<>>
    /\ results = {}
    /\ got = "None"
    /\ n_got = 0
    /\ timed_out = FALSE
    /\ fit_failed = {}
    /\ retrieved = <<>>
    /\ proba = "None"

InitLoadIdle ==
    /\ listing = <<>>
    /\ loaded = [raises |-> "not called"]

Init == InitSel /\ InitFitIdle /\ InitLoadIdle

(***************************************************************************)
(* Ensemble.build_initial_ensemble(n)                                      *)
(***************************************************************************)
build_initial_ensemble_accepts(n) == "none"

\* if not n > 0: raise ValueError, the first statement of the method
build_initial_ensemble_raises(n) == IF ~(n > 0) THEN "ValueError" ELSE "none"

BuildInitialEnsemble(n) ==
    /\ additions + n <= MaxAdditions
    /\ lastOp' = [op |-> "build_initial_ensemble", n |-> n,
                  overwrote |-> (n > 0 /\ models # <<>>), before |-> models]
    /\ raised' = build_initial_ensemble_raises(n)
    /\ IF raised' # "none"
       THEN UNCHANGED <<models, additions, since_reset>>
       ELSE /\ models' = seed(models, model_library, metric, y_true, n)
            /\ additions' = additions + n
            /\ since_reset' = IF n < Len(model_library) THEN n
                               ELSE Len(model_library)
    /\ UNCHANGED <<metric, y_true, model_library, child_ensembles>>
    /\ UNCHANGED <<fitVars, loadVars, objVars>>

(***************************************************************************)
(* Ensemble.add_models(n)                                                  *)
(***************************************************************************)
AddModels(n) ==
    /\ additions + n <= MaxAdditions
    /\ lastOp' = [op |-> "add_models", n |-> n, before |-> models]
    /\ raised' = add_models_raises(models, model_library, n)
    /\ IF raised' # "none"
       THEN UNCHANGED <<models, additions, since_reset>>
       ELSE /\ models' = add_n(models, model_library, metric, y_true, n)
            /\ additions' = additions + n
            /\ since_reset' = since_reset + n
    /\ UNCHANGED <<metric, y_true, model_library, child_ensembles>>
    /\ UNCHANGED <<fitVars, loadVars, objVars>>

(***************************************************************************)
(* Ensemble.build_(n_ensembles, start_size, total_size)                    *)
(***************************************************************************)
\* int(self._child_ensemble_model_fraction * len(self.model_library))
subset_n(frac, len) == (frac * len) \div 100

\* np.random.choice(range(len), size=k, replace=False): k distinct indices
Draws(len, k) ==
    {d \in [1..k -> 1..len] : \A i, j \in 1..k : i # j => d[i] # d[j]}

model_subset(lib, draw) == [i \in 1..Len(draw) |-> lib[draw[i]]]

\* One child: Ensemble(metric, y_true, model_library=subset), then
\* build_initial_ensemble(start_size) and add_models(total_size - start_size).
\* An empty subset leaves the child without a library to select from.
child_run(subset, m, y, start_size, total_size) ==
    IF ~(start_size > 0) THEN [raises |-> "ValueError", models |-> <<>>]
    ELSE IF subset = <<>> THEN [raises |-> "ValueError", models |-> <<>>]
    ELSE LET seeded == seed(<<>>, subset, m, y, start_size)
             exc == add_models_raises(seeded, subset, total_size - start_size)
         IN  IF exc # "none" THEN [raises |-> exc, models |-> seeded]
             ELSE [raises |-> "none",
                   models |-> add_n(seeded, subset, m, y, total_size - start_size)]

\* The loop over range(n_ensembles): children appended until a round raises.
RECURSIVE build_rounds(_, _, _, _, _, _, _)
build_rounds(children, lib, m, y, draws, start_size, total_size) ==
    IF draws = <<>> THEN [raises |-> "none", children |-> children]
    ELSE LET c == child_run(model_subset(lib, draws[1]), m, y,
                                 start_size, total_size)
         IN  IF c.raises # "none"
             THEN [raises |-> c.raises, children |-> children]
             ELSE build_rounds(Append(children, c.models), lib, m, y,
                               Tail(draws), start_size, total_size)

\* for (model, weight) in child._models.values(): self._add_model(model, weight)
RECURSIVE merge_child(_, _)
merge_child(ms, child) ==
    IF child = <<>> THEN ms
    ELSE merge_child(add_model(ms, child[1][1], child[1][2]), Tail(child))

RECURSIVE merge_children(_, _)
merge_children(ms, children) ==
    IF children = <<>> THEN ms
    ELSE merge_children(merge_child(ms, children[1]), Tail(children))

\* self._models = {} and the merge of every child in self._child_ensembles
merge(ms, children) == merge_children(<<>>, children)

EnsembleCounts == {1, 2}
SizePairs == {<<1, 2>>, <<2, 3>>}

Build_(n_ensembles, start_size, total_size, frac, draws) ==
    /\ \E r \in {build_rounds(child_ensembles, model_library, metric, y_true,
                              draws, start_size, total_size)} :
           /\ raised' = r.raises
           /\ child_ensembles' = r.children
           /\ models' = IF r.raises = "none" THEN merge(models, r.children)
                        ELSE models
    /\ lastOp' = [op |-> "build_", n_ensembles |-> n_ensembles,
                  start_size |-> start_size, total_size |-> total_size,
                  fraction |-> frac, draws |-> draws,
                  children_before |-> Len(child_ensembles)]
    /\ UNCHANGED <<metric, y_true, model_library, additions, since_reset>>
    /\ UNCHANGED <<fitVars, loadVars, objVars>>

\* the calls made: a parent is given at most MaxRounds rounds in all, and
\* is not called again once a call has raised
BuildAny ==
    /\ raised = "none"
    /\ \E n_ensembles \in EnsembleCounts :
           /\ Len(child_ensembles) + n_ensembles <= MaxRounds
           /\ \E sz \in SizePairs, frac \in Fractions :
                  \E draws \in [1..n_ensembles ->
                                  Draws(Len(model_library),
                                        subset_n(frac, Len(model_library)))] :
                      Build_(n_ensembles, sz[1], sz[2], frac, draws)

Next ==
    \/ \E n \in -1..MaxN : BuildInitialEnsemble(n)
    \/ \E n \in -1..MaxN : AddModels(n)

Spec == Init /\ [][Next]_vars

(***************************************************************************)
(* Bagged selection: a parent Ensemble on which build_ is called.          *)
(***************************************************************************)
BagPredValues == {0, 1}
BagLibraries ==
    {lib \in Libraries :
        /\ Len(lib) <= MaxBagLib
        /\ \A i \in 1..Len(lib) : lib[i].predictions \in BagPredValues}

InitBag ==
    /\ InitSel /\ InitFitIdle /\ InitLoadIdle
    /\ metric = "neg_abs_error"
    /\ model_library \in BagLibraries

BagAddCounts == {1, 2}

\* build_ calls, then one add_models call on the merged set
NextBag ==
    \/ lastOp.op # "add_models" /\ BuildAny
    \/ lastOp.op = "build_" /\ raised = "none"
           /\ \E n \in BagAddCounts : AddModels(n)

SpecBag == InitBag /\ [][NextBag]_vars

(***************************************************************************)
(* fit_and_weight(args): the pipeline and its weight, 0 if fitting raised. *)
(***************************************************************************)
fit_and_weight_keep(pipeline, weight, fit_raises) == <<pipeline, weight>>

fit_and_weight(pipeline, weight, fit_raises) ==
    <<pipeline, IF fit_raises THEN 0 ELSE weight>>

(***************************************************************************)
(* Ensemble.fit(X, y, timeout).  The main thread runs FitBegin, FitStart,  *)
(* FitQueue, FitGetNext, FitAppend, FitStop in program order; the workers  *)
(* of the FunctionDispatcher run Worker; the ThreadingTimeout timer runs   *)
(* FitTimeout, which takes the main thread out of the with block.          *)
(***************************************************************************)
InWithBlock == pc \in {"start", "queue", "collect", "append"}

fit_precondition_skipped(ms, none) == "none"

\* if not self._models: raise RuntimeError (an empty dict and None are falsy)
fit_precondition(ms, none) ==
    IF "_models" \in none \/ ms = <<>> THEN "RuntimeError" ELSE "none"

FitBegin ==
    /\ pc = "idle"
    /\ lastOp' = [op |-> "fit",
                  empty |-> ("_models" \in none_attrs \/ models = <<>>),
                  fit_models_before |-> fit_models,
                  none_before |-> none_attrs]
    /\ raised' = fit_precondition(models, none_attrs)
    /\ IF raised' # "none"
       THEN UNCHANGED <<fit_models, none_attrs, pc, dispatcher>>
       ELSE /\ fit_models' = <<>>
            /\ none_attrs' = none_attrs \ {"_fit_models"}
            /\ dispatcher' = "new"
            /\ pc' = "start"
    /\ UNCHANGED <<jobs, results, got, n_got, timed_out, fit_failed, retrieved,
                   proba>>
    /\ UNCHANGED <<metric, y_true, model_library, models, child_ensembles,
                   additions, since_reset, loadVars, shrink_on_pickle>>

FitStart ==
    /\ pc = "start"
    /\ dispatcher' = "started"
    /\ pc' = "queue"
    /\ UNCHANGED <<fit_models, jobs, results, got, n_got, timed_out, fit_failed,
                   retrieved, proba>>
    /\ UNCHANGED <<selVars, loadVars, objVars>>

\* for (model, weight) in self._models.values(): queue_evaluation(...)
FitQueue ==
    /\ pc = "queue"
    /\ LET i == n_got + 1
       IN  /\ jobs' = Append(jobs, <<models[i][1].pipeline, models[i][2]>>)
           /\ IF i = Len(models)
              THEN pc' = "collect" /\ n_got' = 0
              ELSE pc' = "queue" /\ n_got' = i
    /\ UNCHANGED <<fit_models, dispatcher, results, got, timed_out, fit_failed,
                   retrieved, proba>>
    /\ UNCHANGED <<selVars, loadVars, objVars>>

\* a worker takes a queued work item and runs fit_and_weight on it
Worker ==
    /\ dispatcher = "started"
    /\ \E i \in 1..Len(jobs) : \E fit_raises \in BOOLEAN :
           /\ jobs' = Without(jobs, i)
           /\ results' = results \cup
                  {fit_and_weight(jobs[i][1], jobs[i][2], fit_raises)}
           /\ fit_failed' = IF fit_raises THEN fit_failed \cup {jobs[i][1]}
                            ELSE fit_failed
    /\ UNCHANGED <<fit_models, pc, dispatcher, got, n_got, timed_out, retrieved,
                   proba>>
    /\ UNCHANGED <<selVars, loadVars, objVars>>

\* _, output, __ = fit_dispatcher.get_next_result(): blocks for a result
FitGetNext ==
    /\ pc = "collect"
    /\ \E output \in results :
           /\ results' = results \ {output}
           /\ got' = output
           /\ retrieved' = Append(retrieved, output)
    /\ pc' = "append"
    /\ UNCHANGED <<fit_models, dispatcher, jobs, n_got, timed_out, fit_failed,
                   proba>>
    /\ UNCHANGED <<selVars, loadVars, objVars>>

append_result(fm, output) == Append(fm, <<output[1], output[2]>>)

\* self._fit_models.append((pipeline, weight))
FitAppend ==
    /\ pc = "append"
    /\ fit_models' = append_result(fit_models, got)
    /\ got' = "None"
    /\ n_got' = n_got + 1
    /\ pc' = IF n_got + 1 = Len(models) THEN "exit" ELSE "collect"
    /\ UNCHANGED <<dispatcher, jobs, results, timed_out, fit_failed, retrieved,
                   proba>>
    /\ UNCHANGED <<selVars, loadVars, objVars>>

RECURSIVE PadUncollected(_, _)
PadUncollected(fm, ms) ==
    IF ms = <<>> THEN fm
    ELSE IF \E i \in 1..Len(fm) : fm[i][1] = ms[1][1].pipeline
         THEN PadUncollected(fm, Tail(ms))
         ELSE PadUncollected(Append(fm, <<ms[1][1].pipeline, 0>>), Tail(ms))

\* get_next_result raises inside the with block (a broken result queue, an
\* interrupt): the context manager swallows only its own TimeoutException,
\* so the exception leaves fit from line 178 and line 182 is not reached
FitCollectFails ==
    /\ pc = "collect"
    /\ raised' = "Exception"
    /\ pc' = "failed"
    /\ UNCHANGED <<fit_models, dispatcher, jobs, results, got, n_got, timed_out,
                   fit_failed, retrieved, proba>>
    /\ UNCHANGED <<metric, y_true, model_library, models, child_ensembles,
                   lastOp, additions, since_reset, loadVars, objVars>>

\* the TimeoutException is swallowed by the context manager: _fit_models
\* keeps what was appended so far
fit_models_at_timeout(fm, ms) == fm

FitTimeout ==
    /\ InWithBlock
    /\ timed_out' = TRUE
    /\ fit_models' = fit_models_at_timeout(fit_models, models)
    /\ got' = "None"
    /\ pc' = "exit"
    /\ UNCHANGED <<dispatcher, jobs, results, n_got, fit_failed, retrieved,
                   proba>>
    /\ UNCHANGED <<selVars, loadVars, objVars>>

\* fit_dispatcher.stop(); log if not c_mgr; return self
FitStop ==
    /\ pc = "exit"
    /\ dispatcher' = "stopped"
    /\ pc' = "done"
    /\ UNCHANGED <<fit_models, jobs, results, got, n_got, timed_out, fit_failed,
                   retrieved, proba>>
    /\ UNCHANGED <<selVars, loadVars, objVars>>

(***************************************************************************)
(* Ensemble.predict_proba(X).  PipelineOutput(p) is what the fitted        *)
(* pipeline p returns for X (predict_proba, or its encoded predict).       *)
(***************************************************************************)
PipelineOutput(p) == 2 * p + 1

RECURSIVE scaled_predictions(_)
scaled_predictions(fm) ==
    IF fm = <<>> THEN <<>>
    ELSE IF fm[1][2] = 0 THEN scaled_predictions(Tail(fm))
         ELSE <<PipelineOutput(fm[1][1]) * fm[1][2]>> \o scaled_predictions(Tail(fm))

RECURSIVE SumSeq(_)
SumSeq(xs) == IF xs = <<>> THEN 0 ELSE xs[1] + SumSeq(Tail(xs))

RECURSIVE actual_weight_sum(_)
actual_weight_sum(fm) ==
    IF fm = <<>> THEN 0 ELSE fm[1][2] + actual_weight_sum(Tail(fm))

predict_proba_unguarded(fm) ==
    [raises |-> "none",
     value |-> <<SumSeq(scaled_predictions(fm)), actual_weight_sum(fm)>>]

predict_proba(fm) ==
    LET predictions == scaled_predictions(fm)
    IN  IF Len(fm) = 1
        THEN IF predictions = <<>> THEN [raises |-> "IndexError"]
             ELSE [raises |-> "none", value |-> Rat(predictions[1])]
        ELSE IF predictions = <<>> THEN [raises |-> "ValueError"]  \* np.stack([])
             ELSE [raises |-> "none",
                   value |-> <<SumSeq(predictions), actual_weight_sum(fm)>>]

PredictProba ==
    /\ pc = "done"
    /\ proba' = predict_proba(fit_models)
    /\ pc' = "predicted"
    /\ lastOp' = [op |-> "predict_proba"]
    /\ raised' = proba'.raises
    /\ UNCHANGED <<fit_models, dispatcher, jobs, results, got, n_got,
                   timed_out, fit_failed, retrieved>>
    /\ UNCHANGED <<metric, y_true, model_library, models, child_ensembles,
                   additions, since_reset, loadVars, objVars>>

\* predict(X) under a regression metric is predict_proba(X); iterating
\* self._fit_models while it is None raises TypeError
predict(none, fm) ==
    IF "_fit_models" \in none THEN [raises |-> "TypeError"] ELSE predict_proba(fm)

(***************************************************************************)
(* Ensemble.__getstate__(): called by pickle on the live object, whose     *)
(* attributes it overwrites before copying __dict__.                       *)
(***************************************************************************)
getstate_none_all(none, m, shrink) ==
    none \cup {"_metric.fn", "_models", "_model_library", "_child_ensembles",
               "_fit_models", "_y_true", "_label_encoder"}

\* the attributes that hold None once __getstate__ has run
getstate_none(none, m, shrink) ==
    none \cup (IF m = "neg_abs_error" THEN {"_metric.fn"} ELSE {})
         \cup (IF shrink THEN {"_models", "_model_library", "_child_ensembles"}
               ELSE {})

GetState ==
    /\ pc \in {"idle", "done", "predicted"}
    /\ lastOp' = [op |-> "__getstate__",
                  before |-> [models |-> models,
                              model_library |-> model_library,
                              child_ensembles |-> child_ensembles,
                              y_true |-> y_true,
                              fit_models |-> fit_models,
                              none |-> none_attrs,
                              predict |-> predict(none_attrs, fit_models)]]
    /\ none_attrs' = getstate_none(none_attrs, metric, shrink_on_pickle)
    /\ models' = IF "_models" \in none_attrs' THEN <<>> ELSE models
    /\ model_library' = IF "_model_library" \in none_attrs' THEN <<>>
                        ELSE model_library
    /\ child_ensembles' = IF "_child_ensembles" \in none_attrs' THEN <<>>
                          ELSE child_ensembles
    /\ y_true' = IF "_y_true" \in none_attrs' THEN 0 ELSE y_true
    /\ fit_models' = IF "_fit_models" \in none_attrs' THEN <<>> ELSE fit_models
    /\ raised' = "none"
    /\ UNCHANGED <<metric, additions, since_reset, shrink_on_pickle>>
    /\ UNCHANGED <<pc, dispatcher, jobs, results, got, n_got, timed_out,
                   fit_failed, retrieved, proba, loadVars>>

(***************************************************************************)
(* Fitting and predicting: an Ensemble whose selection has been made.      *)
(* Any set of distinct pipelines with weights >= 1 can result from a       *)
(* selection; the empty set is the state before any selection.             *)
(***************************************************************************)
SelectedSets ==
    UNION {{[i \in 1..len |-> <<Model(i, 1, 1), w[i]>>] :
                w \in [1..len -> 1..MaxWeight]} : len \in 0..MaxSelected}

InitFit ==
    /\ metric = "neg_abs_error"
    /\ y_true = 1
    /\ models \in SelectedSets
    /\ model_library = [i \in 1..(IF models = <<>> THEN 1 ELSE Len(models)) |->
                            Model(i, 1, 1)]
    /\ child_ensembles = <<>>
    /\ raised = "none"
    /\ lastOp = NoOp
    /\ additions = 0
    /\ since_reset = 0
    /\ none_attrs = {"_fit_models", "_model_library_directory"}
    /\ shrink_on_pickle \in BOOLEAN
    /\ InitFitIdle
    /\ InitLoadIdle

NextFit ==
    \/ FitBegin
    \/ FitStart
    \/ FitQueue
    \/ Worker
    \/ FitGetNext
    \/ FitAppend
    \/ FitTimeout
    \/ FitStop
    \/ FitCollectFails
    \/ PredictProba
    \/ GetState

SpecFit == InitFit /\ [][NextFit]_vars

(***************************************************************************)
(* load_predictions(cache_dir).  A file of the listing is                  *)
(* [pkl, size, pl]: whether its name ends in '.pkl', its byte size, and    *)
(* the pipeline pickled in it.  pl = 0 while the local pl is unbound.      *)
(***************************************************************************)
File(is_pkl, size, p) == [pkl |-> is_pkl, size |-> size, pl |-> p]

RECURSIVE load_from(_, _, _)
load_from(files, pl, loaded_models) ==
    IF files = <<>> THEN [raises |-> "none", models |-> loaded_models]
    ELSE LET file == files[1]
             pl2 == IF file.pkl /\ file.size > 0 THEN file.pl ELSE pl
         IN  IF ~file.pkl THEN load_from(Tail(files), pl, loaded_models)
             ELSE IF pl2 = 0
                  THEN [raises |-> "UnboundLocalError", models |-> <<>>]
                  ELSE load_from(Tail(files), pl2,
                                 Append(loaded_models, Model(pl2, 1, 1)))

load_predictions(files) == load_from(files, 0, <<>>)

\* os.listdir(None) lists the working directory, taken to hold no file
working_directory == <<>>

\* if not self._model_library: an empty list and None are falsy
loads_from_disk(lib, none) == "_model_library" \in none \/ lib = <<>>

\* Ensemble.model_library, the property every selection reads the library
\* through.  lastOp keeps the arguments the constructor was given.
LoadLibrary ==
    /\ lastOp.op \in {"init", "__init__"}
    /\ raised = "none"
    /\ LET given == IF lastOp.op = "__init__"
                    THEN [library |-> lastOp.library_given,
                          directory |-> lastOp.directory_given]
                    ELSE [library |-> FALSE, directory |-> TRUE]
       IN  IF loads_from_disk(model_library, none_attrs)
           THEN /\ loaded' = load_predictions(
                                 IF "_model_library_directory" \in none_attrs
                                 THEN working_directory ELSE listing)
                /\ raised' = loaded'.raises
                /\ model_library' = IF loaded'.raises = "none"
                                    THEN loaded'.models ELSE model_library
                /\ none_attrs' = IF loaded'.raises = "none"
                                 THEN none_attrs \ {"_model_library"}
                                 ELSE none_attrs
                /\ lastOp' = [op |-> "load_predictions",
                              library_given |-> given.library,
                              directory_given |-> given.directory]
           ELSE /\ lastOp' = [op |-> "model_library",
                              library_given |-> given.library,
                              directory_given |-> given.directory]
                /\ UNCHANGED <<loaded, raised, model_library, none_attrs>>
    /\ UNCHANGED <<metric, y_true, models, child_ensembles, additions,
                   since_reset, listing, shrink_on_pickle>>
    /\ UNCHANGED fitVars

Listings ==
    UNION {{[i \in 1..len |-> File(f[i][1], f[i][2], i)] :
                f \in [1..len -> BOOLEAN \X {0, 1}]} : len \in 0..MaxFiles}

InitLoad ==
    /\ metric = "neg_abs_error"
    /\ y_true = 1
    /\ model_library = <<>>
    /\ models = <<>>
    /\ child_ensembles = <<>>
    /\ raised = "none"
    /\ lastOp = NoOp
    /\ additions = 0
    /\ since_reset = 0
    /\ none_attrs = {"_fit_models", "_label_encoder"}
    /\ shrink_on_pickle = TRUE
    /\ InitFitIdle
    /\ listing \in Listings
    /\ loaded = [raises |-> "not called"]

NextLoad == LoadLibrary

SpecLoad == InitLoad /\ [][NextLoad]_vars

(***************************************************************************)
(* Ensemble.__init__(metric, y_true, model_library, model_library_directory*)
(* , ...).  library_given is model_library is not None; directory_given is *)
(* model_library_directory is not None.                                    *)
(***************************************************************************)
Construct(library_given, library, directory_given) ==
    /\ lastOp.op = "new"
    /\ lastOp' = [op |-> "__init__", library_given |-> library_given,
                  directory_given |-> directory_given]
    /\ IF ~library_given /\ ~directory_given
       THEN /\ raised' = "ValueError"
            /\ UNCHANGED <<model_library, none_attrs, models, child_ensembles,
                           fit_models>>
       ELSE /\ raised' = "none"
            /\ model_library' = IF library_given THEN library ELSE <<>>
            /\ none_attrs' = {"_fit_models", "_label_encoder"} \cup
                   (IF directory_given THEN {} ELSE {"_model_library_directory"})
            /\ fit_models' = <<>>
            /\ child_ensembles' = <<>>
            /\ models' = <<>>
    /\ UNCHANGED <<metric, y_true, additions, since_reset, shrink_on_pickle>>
    /\ UNCHANGED <<pc, dispatcher, jobs, results, got, n_got, timed_out,
                   fit_failed, retrieved, proba, loadVars>>

\* the values given for model_library: None (library_given = FALSE), the
\* empty list and lists of models
LibraryArguments ==
    {<<FALSE, <<>>>>, <<TRUE, <<>>>>} \cup
    {<<TRUE, [i \in 1..len |-> Model(i, 1, 1)]>> : len \in 1..MaxLib}

\* the object before __init__ has run, and the directory it may be given
InitCtor ==
    /\ metric = "neg_abs_error"
    /\ y_true = 1
    /\ model_library = <<>>
    /\ models = <<>>
    /\ child_ensembles = <<>>
    /\ raised = "none"
    /\ lastOp = [op |-> "new"]
    /\ additions = 0
    /\ since_reset = 0
    /\ none_attrs = {"_fit_models", "_label_encoder", "_model_library",
                     "_model_library_directory", "_models", "_child_ensembles"}
    /\ shrink_on_pickle = TRUE
    /\ InitFitIdle
    /\ listing \in Listings
    /\ loaded = [raises |-> "not called"]

NextCtor ==
    \/ \E arg \in LibraryArguments, directory_given \in BOOLEAN :
           Construct(arg[1], arg[2], directory_given)
    \/ LoadLibrary

SpecCtor == InitCtor /\ [][NextCtor]_vars

(***************************************************************************)
(* Properties                                                              *)
(***************************************************************************)
Pipelines == 1..MaxLib
Seeded == lastOp.op = "build_initial_ensemble" /\ raised = "none"
Added == lastOp.op = "add_models" /\ raised = "none"
Built == lastOp.op = "build_" /\ raised = "none"

RECURSIVE WeightOf(_, _)
WeightOf(ms, p) ==
    IF ms = <<>> THEN 0
    ELSE (IF ms[1][1].pipeline = p THEN ms[1][2] ELSE 0) + WeightOf(Tail(ms), p)

RECURSIVE WeightIn(_, _)
WeightIn(children, p) ==
    IF children = <<>> THEN 0
    ELSE WeightOf(children[1], p) + WeightIn(Tail(children), p)

SameWeights(a, b) == \A p \in Pipelines : WeightOf(a, p) = WeightOf(b, p)
OneEntryPerModel(ms) ==
    \A i, j \in 1..Len(ms) : i # j => ms[i][1].pipeline # ms[j][1].pipeline
Score(r) == evaluate(metric, y_true, Rat(r.predictions))
LibraryModel(p) == model_library[p]

\* C2 (as claimed): the total weight of the Weighted Model Set equals the
\* total T of the additions of all seed and step_add calls made so far.
C2_TotalWeightIsAllAdditions == SumWeights(models) = additions

\* C2 (amended): the total weight equals the additions made since, and
\* including, the most recent seed, a seed(n) counting min(n, library size).
C2_TotalWeightSinceSeed == SumWeights(models) = since_reset

C2_Witness == Added /\ lastOp.before # <<>> /\ since_reset < additions
              /\ since_reset >= 2

\* C3 (as claimed): after every bagging build the parent holds, for each
\* model, exactly the sum of the weights it received in the n_ensembles
\* children constructed by that call, in one entry per model.
C3_ParentIsSumOfThisCallsChildren ==
    Built =>
        /\ OneEntryPerModel(models)
        /\ \A p \in Pipelines :
               WeightOf(models, p) =
                   WeightIn(SubSeq(child_ensembles, lastOp.children_before + 1,
                                   Len(child_ensembles)), p)

\* C4 (as claimed): bagging with one round over the full library gives the
\* weights of seed(start_size) then step_add(total_size - start_size) on the
\* full library, whatever order the draw returns.
Direct(lib, start_size, total_size) ==
    add_n(seed(<<>>, lib, metric, y_true, start_size), lib, metric, y_true,
          total_size - start_size)

FullSingleBuild == Built /\ lastOp.n_ensembles = 1 /\ lastOp.fraction = 100

C4_BaggingEqualsDirectOnLibrary ==
    FullSingleBuild =>
        SameWeights(models,
                    Direct(model_library, lastOp.start_size, lastOp.total_size))

\* C4 (amended): with one round over the full library the child holds the
\* weights of seed then step_add on the library in the order the draw
\* returned it, and the parent holds the sum of the weights of all the
\* children it holds (that child alone on a first build).
C4_BaggingEqualsDirectOnDraw ==
    FullSingleBuild =>
        LET drawn == model_subset(model_library, lastOp.draws[1])
            want == Direct(drawn, lastOp.start_size, lastOp.total_size)
        IN  /\ SameWeights(child_ensembles[Len(child_ensembles)], want)
            /\ \A p \in Pipelines :
                   WeightOf(models, p) = WeightIn(child_ensembles, p)
            /\ lastOp.children_before = 0 => SameWeights(models, want)

C4_Witness ==
    /\ FullSingleBuild
    /\ lastOp.children_before = 0
    /\ lastOp.draws[1] # [i \in 1..Len(model_library) |-> i]
    /\ \E i \in 1..Len(models) : models[i][2] >= 2
    /\ ~SameWeights(models,
                    Direct(model_library, lastOp.start_size, lastOp.total_size))

\* C8 (as claimed): seed(n) selects the n best models in the metric's
\* direction: selected scores >= unselected ones for a maximized metric,
\* <= for a minimized one.
C8_SeedSelectsBestInMetricDirection ==
    Seeded =>
        \A s \in Keys(models) : \A u \in (1..Len(model_library)) \ Keys(models) :
            IF MetricMaximize(metric)
            THEN ~RLess(Score(LibraryModel(s)), Score(LibraryModel(u)))
            ELSE ~RLess(Score(LibraryModel(u)), Score(LibraryModel(s)))

\* C9: seed(k), k > 0, on a library of at least k models leaves exactly k
\* entries of weight 1 each (total weight k), also when the set was populated.
C9_SeedYieldsKUnitEntries ==
    (Seeded /\ lastOp.n <= Len(model_library)) =>
        /\ Len(models) = lastOp.n
        /\ OneEntryPerModel(models)
        /\ \A i \in 1..Len(models) : models[i][2] = 1
        /\ SumWeights(models) = lastOp.n

C9_Witness == Seeded /\ lastOp.overwrote /\ lastOp.n >= 2
              /\ lastOp.n <= Len(model_library)

\* fit has returned and the selection it fitted is still held
FitDone == pc \in {"done", "predicted"} /\ "_models" \notin none_attrs
Predicted == pc = "predicted"
SelectionWeight(p) == WeightOf(models, p)
FitPipelines == {fit_models[i][1] : i \in 1..Len(fit_models)}

RECURSIVE UsedWeight(_)
UsedWeight(fm) ==
    IF fm = <<>> THEN 0
    ELSE (IF fm[1][2] > 0 THEN fm[1][2] ELSE 0) + UsedWeight(Tail(fm))

RECURSIVE UsedOutput(_)
UsedOutput(fm) ==
    IF fm = <<>> THEN 0
    ELSE (IF fm[1][2] > 0 THEN fm[1][2] * PipelineOutput(fm[1][1]) ELSE 0)
         + UsedOutput(Tail(fm))

\* C1 (as claimed): with exactly one fitted entry of weight w >= 1,
\* predict_proba returns that pipeline's raw output, whatever w is.
C1_SingleModelWeightCancels ==
    (Predicted /\ Len(fit_models) = 1 /\ fit_models[1][2] >= 1) =>
        /\ proba.raises = "none"
        /\ REq(proba.value, Rat(PipelineOutput(fit_models[1][1])))

\* C5 (as claimed): predict_proba is the sum of weight * output over the
\* entries of weight > 0 divided by the sum of those fitted weights.
C5_WeightedAverageOfFittedWeights ==
    (Predicted /\ UsedWeight(fit_models) > 0) =>
        /\ proba.raises = "none"
        /\ REq(proba.value, <<UsedOutput(fit_models), UsedWeight(fit_models)>>)

\* C6: when the deadline fires during fit, fit returns normally and the
\* Fitted Model Set holds only results retrieved before the deadline:
\* distinct selected pipelines, each with its selection weight or 0, at most
\* one per selected pipeline, and no entry for an uncollected pipeline.
C6_TimeoutKeepsRetrievedOnly ==
    (FitDone /\ timed_out) =>
        /\ lastOp.op = "fit" => raised = "none"
        /\ Len(fit_models) <= Len(models)
        /\ Len(fit_models) <= Len(retrieved)
        /\ \A i \in 1..Len(fit_models) :
               /\ fit_models[i] = retrieved[i]
               /\ fit_models[i][1] \in Keys(models)
               /\ fit_models[i][2] \in {SelectionWeight(fit_models[i][1]), 0}
               /\ \A j \in 1..Len(fit_models) :
                      i # j => fit_models[i][1] # fit_models[j][1]

C6_Witness ==
    /\ pc = "done" /\ timed_out
    /\ Len(fit_models) = 1
    /\ Len(models) >= 2
    /\ Len(retrieved) = 2

\* C7: whatever pipelines fail to fit, a fit not cut off by the deadline
\* returns normally with exactly one entry per selected pipeline, in any
\* completion order: weight 0 for exactly the failed pipelines, the
\* selection weight for the others.
C7_FailedFitsGetWeightZero ==
    (FitDone /\ ~timed_out) =>
        /\ lastOp.op = "fit" => raised = "none"
        /\ Len(fit_models) = Len(models)
        /\ FitPipelines = Keys(models)
        /\ \A i \in 1..Len(fit_models) :
               fit_models[i][2] = IF fit_models[i][1] \in fit_failed THEN 0
                                  ELSE SelectionWeight(fit_models[i][1])

C7_Witness ==
    /\ pc = "done" /\ ~timed_out
    /\ Len(fit_models) >= 2
    /\ fit_models[1][1] > fit_models[2][1]
    /\ \E i, j \in 1..Len(fit_models) :
           fit_models[i][2] = 0 /\ fit_models[j][2] >= 2

ValidFiles == {i \in 1..Len(listing) : listing[i].pkl /\ listing[i].size > 0}
NthValid(k) ==
    CHOOSE i \in ValidFiles : Cardinality({j \in ValidFiles : j <= i}) = k

\* C10 (as claimed): for a listing of valid and zero-byte prediction files
\* the loader does not raise and returns exactly one record per valid file,
\* none for a zero-byte file, and no two records for the same pipeline.
C10_LoaderSkipsZeroByteFiles ==
    lastOp.op = "load_predictions" =>
        /\ loaded.raises = "none"
        /\ Len(loaded.models) = Cardinality(ValidFiles)
        /\ \A k \in 1..Len(loaded.models) :
               loaded.models[k].pipeline = listing[NthValid(k)].pl
        /\ \A i, j \in 1..Len(loaded.models) :
               i # j => loaded.models[i].pipeline # loaded.models[j].pipeline

Pickled == lastOp.op = "__getstate__"

\* C11: serializing with shrink enabled leaves _models, _model_library and
\* _child_ensembles None and does not touch _y_true, _fit_models and
\* _label_encoder, so predict returns after it what it returned before;
\* with shrink disabled none of the six attributes changes.
C11_GetStateFrame ==
    Pickled =>
        LET b == lastOp.before
        IN  /\ y_true = b.y_true
            /\ fit_models = b.fit_models
            /\ \A a \in {"_y_true", "_fit_models", "_label_encoder"} :
                   (a \in none_attrs) = (a \in b.none)
            /\ predict(none_attrs, fit_models) = b.predict
            /\ IF shrink_on_pickle
               THEN {"_models", "_model_library", "_child_ensembles"}
                        \subseteq none_attrs
               ELSE /\ models = b.models
                    /\ model_library = b.model_library
                    /\ child_ensembles = b.child_ensembles
                    /\ \A a \in {"_models", "_model_library", "_child_ensembles"} :
                           (a \in none_attrs) = (a \in b.none)

C11_Witness ==
    /\ Pickled /\ shrink_on_pickle /\ pc = "done"
    /\ lastOp.before.models # <<>>
    /\ "_models" \notin lastOp.before.none
    /\ Len(fit_models) >= 2
    /\ lastOp.before.predict.raises = "none"

\* C13: fit called while the Weighted Model Set is empty raises
\* RuntimeError, creates and starts no worker pool, queues no job, and
\* leaves the Fitted Model Set as it was.
C13_FitOnEmptySetRaises ==
    (lastOp.op = "fit" /\ lastOp.empty) =>
        /\ raised = "RuntimeError"
        /\ pc = "idle"
        /\ dispatcher = "none"
        /\ jobs = <<>> /\ results = {}
        /\ fit_models = lastOp.fit_models_before
        /\ ("_fit_models" \in none_attrs) = ("_fit_models" \in lastOp.none_before)

C13_Witness ==
    /\ lastOp.op = "fit" /\ lastOp.empty
    /\ "_models" \notin none_attrs /\ models = <<>>
    /\ raised = "RuntimeError"

\* C14: predict_proba over a Fitted Model Set without an entry of weight
\* > 0 (empty, or every entry at weight 0) raises and returns no value.
C14_NoUsableEntryRaises ==
    (Predicted /\ UsedWeight(fit_models) = 0) => proba.raises # "none"

C14_Witness ==
    /\ Predicted /\ timed_out /\ fit_models = <<>>
    /\ proba.raises = "ValueError"

C14_WitnessAllZero ==
    /\ Predicted /\ Len(fit_models) >= 2 /\ UsedWeight(fit_models) = 0
    /\ proba.raises = "ValueError"

C14_WitnessSingleZero ==
    /\ Predicted /\ Len(fit_models) = 1 /\ UsedWeight(fit_models) = 0
    /\ proba.raises = "IndexError"

FitFinished == pc \in {"done", "predicted", "failed"}

\* C18 (as claimed): when a fit call that started the worker pool has
\* finished, by returning or by raising, the pool has been shut down.
C18_PoolStoppedWhenFitFinishes == FitFinished => dispatcher = "stopped"

\* C18, the two other cases: the pool is shut down when fit returns after
\* collecting every result or after the deadline fired.
C18_PoolStoppedWhenFitReturns == FitDone => dispatcher = "stopped"

\* C12: build_initial_ensemble(n) and add_models(n) with n <= 0 raise
\* ValueError and leave the Weighted Model Set, entries, weights and order,
\* exactly as it was, empty or populated.
C12_NonPositiveNRaises ==
    (lastOp.op \in {"build_initial_ensemble", "add_models"} /\ lastOp.n <= 0) =>
        /\ raised = "ValueError"
        /\ models = lastOp.before

C12_Witness ==
    /\ lastOp.op = "build_initial_ensemble" /\ lastOp.n <= 0
    /\ Len(models) >= 2
    /\ raised = "ValueError"

C12_WitnessAdd ==
    /\ lastOp.op = "add_models" /\ lastOp.n < 0
    /\ Len(models) >= 2
    /\ raised = "ValueError"

Candidates == {i \in 1..Len(model_library) : model_library[i].validation_score # 0}

\* score of the candidate aggregate of library model i on the set ms
CandidateScore(ms, i) ==
    evaluate(metric, y_true,
             candidate_pred(averaged_validation_predictions(ms),
                            total_model_weights(ms), model_library[i]))

\* score a is better than score b in the direction of the metric
Better(a, b) == IF MetricMaximize(metric) THEN RLess(b, a) ELSE RLess(a, b)

\* the earliest candidate whose score no candidate betters
BestCandidate(ms) ==
    CHOOSE i \in Candidates :
        /\ \A j \in Candidates : ~Better(CandidateScore(ms, j), CandidateScore(ms, i))
        /\ \A j \in Candidates :
               j < i => Better(CandidateScore(ms, i), CandidateScore(ms, j))

\* the set after the first k iterations of the add_models call made last
AfterIteration(k) == add_n(lastOp.before, model_library, metric, y_true, k)

IncrementsOnly(prev, cur, p) ==
    /\ OneEntryPerModel(cur)
    /\ \A q \in Pipelines :
           WeightOf(cur, q) = WeightOf(prev, q) + (IF q = p THEN 1 ELSE 0)

IterationsAddBest ==
    Added =>
        \A k \in 1..lastOp.n :
            IncrementsOnly(AfterIteration(k - 1), AfterIteration(k),
                           model_library[BestCandidate(AfterIteration(k - 1))].pipeline)

\* C16 (as claimed): each iteration of add_models(n) adds 1 to the weight
\* of exactly one library model (inserted at weight 1 if new) and changes
\* no other entry; that model is the candidate whose aggregate score is
\* best under the metric, the earliest in library order among equal bests.
C16_EachIterationAddsBestCandidate ==
    IterationsAddBest /\ (Added => models = AfterIteration(lastOp.n))

\* C16 restricted to a metric that is maximized
C16_OnMaximizedMetric == MetricMaximize(metric) => IterationsAddBest

C16_WitnessTie ==
    /\ Added /\ MetricMaximize(metric)
    /\ \E i, j \in Candidates :
           /\ i < j
           /\ i = BestCandidate(lastOp.before)
           /\ model_library[i].predictions # model_library[j].predictions
           /\ REq(CandidateScore(lastOp.before, i), CandidateScore(lastOp.before, j))

\* C17: add_models never inserts a library model whose validation_score
\* is 0 and never increments its weight, whatever its candidate aggregate
\* would score.
C17_ZeroScoreNeverAdded ==
    Added =>
        \A i \in 1..Len(model_library) :
            model_library[i].validation_score = 0 =>
                /\ WeightOf(models, i) = WeightOf(lastOp.before, i)
                /\ \A k \in 0..lastOp.n :
                       WeightOf(AfterIteration(k), i) = WeightOf(lastOp.before, i)

C17_Witness ==
    /\ Added /\ lastOp.n >= 2
    /\ \E i \in 1..Len(model_library) :
           /\ model_library[i].validation_score = 0
           /\ WeightOf(models, i) = 1
           /\ \A j \in Candidates :
                  RLess(CandidateScore(lastOp.before, j),
                        CandidateScore(lastOp.before, i))

\* C19: add_models(n), n > 0, on an empty Weighted Model Set raises and
\* adds no model: the set stays empty.
C19_AddOnEmptySetRaises ==
    (lastOp.op = "add_models" /\ lastOp.n > 0 /\ lastOp.before = <<>>) =>
        /\ raised # "none"
        /\ models = <<>>

C19_Witness ==
    /\ lastOp.op = "add_models" /\ lastOp.n > 0 /\ lastOp.before = <<>>
    /\ HasCandidate(model_library)
    /\ raised = "ValueError"

\* C15 (as claimed): the constructor raises exactly when neither a library
\* nor a directory is given; when both are given no later access of the
\* library loads from the directory, whatever library was supplied.
C15_DirectoryIgnoredWhenLibraryGiven ==
    /\ lastOp.op = "__init__" =>
           (raised = "ValueError") =
               (~lastOp.library_given /\ ~lastOp.directory_given)
    /\ (lastOp.op \in {"model_library", "load_predictions"}
            /\ lastOp.library_given /\ lastOp.directory_given) =>
           lastOp.op = "model_library"

\* C15, the part that holds: the constructor raises exactly when neither
\* is given, and the library is read without a load exactly when a
\* non-empty library was supplied.
C15_NonEmptyLibraryKept ==
    /\ lastOp.op = "__init__" =>
           (raised = "ValueError") =
               (~lastOp.library_given /\ ~lastOp.directory_given)
    /\ lastOp.op = "model_library" => lastOp.library_given /\ model_library # <<>>
    /\ (lastOp.op = "load_predictions" /\ loaded.raises = "none") =>
           model_library = loaded.models

\* exact arithmetic: the online update of lines 144-145 against the
\* weighted average of the set with candidate i added at weight 1
OnlineEqualsFull(ms) ==
    \A i \in Candidates :
        REq(candidate_pred(averaged_validation_predictions(ms),
                           total_model_weights(ms), model_library[i]),
            averaged_validation_predictions(add_model(ms, model_library[i], 1)))

\* the same comparison on the values the floating point operations return
OnlineEqualsFullRounded(ms) ==
    \A i \in Candidates :
        REq(candidate_pred_fl(averaged_validation_predictions_fl(ms),
                              total_model_weights(ms), model_library[i]),
            averaged_validation_predictions_fl(add_model(ms, model_library[i], 1)))

\* the sets an iteration of add_models starts from: every non-empty set
\* reached, and the set before each iteration of the call made last
IterationStarts ==
    (IF models # <<>> THEN {models} ELSE {}) \cup
    (IF Added THEN {AfterIteration(k - 1) : k \in 1..lastOp.n} ELSE {})

\* C20 (as claimed): in every add_models iteration the candidate aggregate
\* the code computes by the online update equals the weighted average it
\* computes for the set with that candidate added at weight 1.
C20_OnlineUpdateEqualsFullAverage ==
    \A ms \in IterationStarts : OnlineEqualsFullRounded(ms)

\* C20 (amended): the online update and the full weighted average are
\* equal in exact arithmetic, for every set an iteration starts from.
C20_OnlineUpdateEqualsFullAverageExactly ==
    \A ms \in IterationStarts : OnlineEqualsFull(ms)

C20_Witness ==
    /\ Added
    /\ Len(child_ensembles) = 2
    /\ Len(lastOp.before) >= 2
    /\ \E i \in 1..Len(lastOp.before) : lastOp.before[i][2] >= 2
    /\ ~OnlineEqualsFullRounded(lastOp.before)
====
